---- MODULE Spec2Model ----
(***************************************************************************)
(* A model of simple_jsonrpc.py: the JSON-RPC server (SimpleJsonRpcServer: *)
(* registry, parameter normalisation, process_request, prepare_request)    *)
(* and the dynamic client (SimpleJsonRpcClient).                           *)
(***************************************************************************)
EXTENDS Integers, Sequences, FiniteSets, TLC

\* urls, show_api: the fields of SimpleJsonRpcServer (self.urls, self.show_api).
\* request, response, calls: the request flask hands to prepare_request, what
\*   prepare_request gives back, and the handler calls made while serving it.
\* origin, client: the client the application constructed, and the proxy
\*   reached from it; chain: the attribute names accessed on the way.
\* sent: what the last send_request call did; next_id: the uuid4 ids drawn.
\* pc, frames, work, returned: the process_request calls that run concurrently in
\*   the threads of the web server: the position of each, the locals of each
\*   call frame, the items each was given, and what each returned.
VARIABLES urls, show_api, request, response, calls, origin, client, chain, sent, next_id,
          pc, frames, work, returned

vars == <<urls, show_api, request, response, calls, origin, client, chain, sent, next_id,
          pc, frames, work, returned>>
serverVars == <<urls, show_api, request, response, calls>>
clientVars == <<origin, client, chain, sent, next_id>>
concVars == <<pc, frames, work, returned>>

(***************************************************************************)
(* Bounds of the model.                                                    *)
(***************************************************************************)
MaxBatch == 2
MaxChain == 3
MaxSend == 2
NumThreads == 2

(***************************************************************************)
(* Decoded JSON values, all of one record shape so that any two compare.   *)
(* items: the elements of an array; map: the key/value pairs of an object. *)
(***************************************************************************)
JNull == [t |-> "null", b |-> FALSE, n |-> 0, s |-> "", items |-> <<>>, map |-> {}]
JBool(x) == [JNull EXCEPT !.t = "bool", !.b = x]
JNum(x) == [JNull EXCEPT !.t = "num", !.n = x]
JStr(x) == [JNull EXCEPT !.t = "str", !.s = x]
JList(x) == [JNull EXCEPT !.t = "list", !.items = x]
JDict(x) == [JNull EXCEPT !.t = "dict", !.map = x]

\* Python truth value testing, as `not params` and all([...]) apply it.
Truthy(v) ==
  CASE v.t = "null" -> FALSE
    [] v.t = "bool" -> v.b
    [] v.t = "num" -> v.n # 0
    [] v.t = "str" -> v.s # ""
    [] v.t = "list" -> v.items # <<>>
    [] v.t = "dict" -> v.map # {}

Keys(kwargs) == {p[1] : p \in kwargs}
Lookup(kwargs, k) == (CHOOSE p \in kwargs : p[1] = k)[2]

(***************************************************************************)
(* Error codes raised by the server.                                       *)
(***************************************************************************)
InvalidRequest == -32600
MethodNotFound == -32601
InvalidParams == -32602
InternalError == -32603
DefaultCode == 0
AppCode == 42

\* An exception in flight: kind "none" when nothing was raised.
NoRaise == [kind |-> "none", code |-> 0, message |-> ""]
Raise(kind, code, message) == [kind |-> kind, code |-> code, message |-> message]

\* SimpleJsonRpcError(message, code): code defaults to 0.
SimpleJsonRpcError(message, code) == Raise("SimpleJsonRpcError", code, message)

\* SimpleJsonRpcError.json_rpc_format
json_rpc_format(e) == [present |-> TRUE, code |-> e.code, message |-> e.message]
NoError == [present |-> FALSE, code |-> 0, message |-> ""]

(***************************************************************************)
(* Handlers: the callables a registry may hold. "ping" is the bound method *)
(* SimpleJsonRpcServer.ping; the others are what an application registers: *)
(*   echo     def echo(x): return x                                        *)
(*   noargs   def noargs(): return 7                                       *)
(*   boom     takes any arguments, raises ValueError                       *)
(*   rpcerr   takes any arguments, raises SimpleJsonRpcError('app', 42)    *)
(*   raw      takes any arguments, returns a flask Response                *)
(***************************************************************************)
Handlers == {"ping", "echo", "noargs", "boom", "rpcerr", "raw"}

\* Whether Python binds the positional and keyword arguments to the handler's
\* signature. ping is declared with the parameters self, *args, kwargs: kwargs is a required
\* keyword-only parameter, and no other keyword is accepted.
Accepts(h, args, kwargs) ==
  CASE h = "ping" -> Keys(kwargs) = {"kwargs"}
    [] h = "echo" -> \/ Len(args) = 1 /\ kwargs = {}
                     \/ Len(args) = 0 /\ Keys(kwargs) = {"x"}
    [] h = "noargs" -> Len(args) = 0 /\ kwargs = {}
    [] OTHER -> TRUE

\* The outcome of calling the handler: a returned JSON value, a returned
\* flask Response, or a raised exception.
Returned(v) == [kind |-> "return", value |-> v, exc |-> NoRaise]
ReturnedResponse == [kind |-> "Response", value |-> JStr("raw body"), exc |-> NoRaise]
Raised(e) == [kind |-> "raise", value |-> JNull, exc |-> e]

\* SimpleJsonRpcServer.ping
ping == JStr("pong")

call(h, args, kwargs) ==
  IF ~Accepts(h, args, kwargs) THEN Raised(Raise("Exception", 0, "TypeError"))
  ELSE CASE h = "ping" -> Returned(ping)
         [] h = "echo" -> Returned(JNum(IF Len(args) = 1 THEN args[1] ELSE Lookup(kwargs, "x")))
         [] h = "noargs" -> Returned(JNum(7))
         [] h = "boom" -> Raised(Raise("Exception", 0, "ValueError"))
         [] h = "rpcerr" -> Raised(SimpleJsonRpcError("app", AppCode))
         [] h = "raw" -> ReturnedResponse

(***************************************************************************)
(* The registry self.urls: a dict, kept as its entries in insertion order. *)
(***************************************************************************)
Has(u, name) == \E i \in 1..Len(u) : u[i].name = name
Get(u, name) == u[CHOOSE i \in 1..Len(u) : u[i].name = name].f
Put(u, name, f) ==
  IF Has(u, name)
  THEN [i \in 1..Len(u) |-> IF u[i].name = name THEN [name |-> name, f |-> f] ELSE u[i]]
  ELSE Append(u, [name |-> name, f |-> f])

Builtin == <<[name |-> "ping", f |-> "ping"]>>

\* A registration that leaves a name already registered with its handler
register_first_wins(u, name, f) == IF Has(u, name) THEN u ELSE Put(u, name, f)

\* SimpleJsonRpcServer.register(name)(f)
register(u, name, f) == Put(u, name, f)

(***************************************************************************)
(* A decoded request item. isobj is FALSE for a JSON value that is not an  *)
(* object (items.get then raises AttributeError). A field that is absent   *)
(* reads as None through items.get, the same as a field that is null.      *)
(***************************************************************************)
Item(version, id, method, params) ==
  [isobj |-> TRUE, version |-> version, id |-> id, method |-> method, params |-> params]
NonObject ==
  [isobj |-> FALSE, version |-> JNull, id |-> JNull, method |-> JNull, params |-> JNull]

\* __expand_params raising its error without the code (the code then defaults to 0)
expand_params_default_code(params) ==
  IF ~Truthy(params) THEN [exc |-> NoRaise, args |-> <<>>, kwargs |-> {}]
  ELSE IF params.t = "list" THEN [exc |-> NoRaise, args |-> params.items, kwargs |-> {}]
  ELSE IF params.t = "dict" THEN [exc |-> NoRaise, args |-> <<>>, kwargs |-> params.map]
  ELSE [exc |-> SimpleJsonRpcError("Invalid method parameters", DefaultCode),
        args |-> <<>>, kwargs |-> {}]

\* SimpleJsonRpcServer.__expand_params
expand_params(params) ==
  IF ~Truthy(params) THEN [exc |-> NoRaise, args |-> <<>>, kwargs |-> {}]
  ELSE IF params.t = "list" THEN [exc |-> NoRaise, args |-> params.items, kwargs |-> {}]
  ELSE IF params.t = "dict" THEN [exc |-> NoRaise, args |-> <<>>, kwargs |-> params.map]
  ELSE [exc |-> SimpleJsonRpcError("Invalid method parameters", InvalidParams),
        args |-> <<>>, kwargs |-> {}]

\* The presence check with tid left out of the list
all_present_without_tid(args, kwargs, handler_name, protocol, tid) ==
  /\ (IF args # <<>> THEN TRUE ELSE kwargs # {})
  /\ Truthy(handler_name)
  /\ Truthy(protocol)

\* all([args or kwargs, handler_name, protocol, tid])
all_present(args, kwargs, handler_name, protocol, tid) ==
  /\ (IF args # <<>> THEN TRUE ELSE kwargs # {})
  /\ Truthy(handler_name)
  /\ Truthy(protocol)
  /\ Truthy(tid)

\* handler_name in self.urls, for a hashable handler_name
in_urls(u, handler_name) == handler_name.t = "str" /\ Has(u, handler_name.s)

\* The locals of process_request as its first line sets them.
Locals0 ==
  [handler_name |-> JNull, protocol |-> JNull, tid |-> JNull, result |-> JNull,
   is_response |-> FALSE, exc |-> NoRaise, invoked |-> <<>>]

\* line 107: the handler is called, and the try block is left with its
\* result or with the exception it raised.
invoked_handler(l, handler, o) ==
  [l EXCEPT !.result = o.value,
            !.is_response = (o.kind = "Response"),
            !.exc = o.exc,
            !.invoked = <<[handler |-> handler, outcome |-> o.kind, exc |-> o.exc]>>]

\* lines 90-107: presence validation, handler lookup and the call.
dispatch(u, p, l) ==
  IF ~all_present(p.args, p.kwargs, l.handler_name, l.protocol, l.tid)
  THEN [l EXCEPT !.exc = SimpleJsonRpcError("JSON-RPC: Invalid request parameters",
                                            InvalidRequest)]
  ELSE IF l.handler_name.t \in {"list", "dict"}
  THEN [l EXCEPT !.exc = Raise("Exception", 0, "TypeError")]
  ELSE IF ~in_urls(u, l.handler_name)
  THEN [l EXCEPT !.exc = SimpleJsonRpcError("JSON-RPC: Method not found", MethodNotFound)]
  ELSE invoked_handler(l, Get(u, l.handler_name.s),
                       call(Get(u, l.handler_name.s), p.args, p.kwargs))

\* lines 85-88: params are expanded first; method, version and id are read
\* only when that did not raise.
expanded(u, items, p) ==
  IF p.exc.kind # "none" THEN [Locals0 EXCEPT !.exc = p.exc]
  ELSE dispatch(u, p, [Locals0 EXCEPT !.handler_name = items.method,
                                      !.protocol = items.version,
                                      !.tid = items.id])

\* The try block of process_request: the locals when it is left, with the
\* exception that left it (exc) and the handler calls it made (invoked).
try_block(u, items) ==
  IF ~items.isobj THEN [Locals0 EXCEPT !.exc = Raise("Exception", 0, "AttributeError")]
  ELSE expanded(u, items, expand_params(items.params))

\* The except clauses with `except Exception` left out: only a
\* SimpleJsonRpcError is caught.
except_clauses_protocol_only(exc) ==
  IF exc.kind = "SimpleJsonRpcError" THEN [error |-> exc, uncaught |-> NoRaise]
  ELSE [error |-> NoRaise, uncaught |-> exc]

\* The except clauses of process_request: the error they bind, and the
\* exception that no clause catches (none, for an Exception).
except_clauses(exc) ==
  IF exc.kind = "SimpleJsonRpcError" THEN [error |-> exc, uncaught |-> NoRaise]
  ELSE IF exc.kind = "Exception"
  THEN [error |-> SimpleJsonRpcError("traceback", InternalError), uncaught |-> NoRaise]
  ELSE [error |-> NoRaise, uncaught |-> exc]

\* What process_request hands back: the envelope dict, the handler's own
\* Response object, or (kind "raised") an exception that leaves it.
Envelope(protocol, tid, method, result, error) ==
  [kind |-> "envelope", protocol |-> protocol, tid |-> tid, action |-> JNull,
   method |-> method, result |-> result, error |-> error]
ResponseObject(result) ==
  [Envelope(JNull, JNull, JNull, result, NoError) EXCEPT !.kind = "Response"]
Propagated == [Envelope(JNull, JNull, JNull, JNull, NoError) EXCEPT !.kind = "raised"]

\* lines 124-135 without the isinstance test of line 121: every result is wrapped
assemble_always_wraps(l, c) ==
  [ret |-> IF c.uncaught.kind # "none" THEN Propagated
           ELSE Envelope(l.protocol, l.tid, l.handler_name, l.result,
                         IF c.error.kind # "none" THEN json_rpc_format(c.error)
                         ELSE NoError),
   invoked |-> l.invoked]

\* lines 124-135 with the error entry set whether or not an error was bound
assemble_always_error(l, c) ==
  [ret |-> IF c.uncaught.kind # "none" THEN Propagated
           ELSE IF l.is_response THEN ResponseObject(l.result)
           ELSE Envelope(l.protocol, l.tid, l.handler_name, l.result, json_rpc_format(c.error)),
   invoked |-> l.invoked]

\* lines 121-135: the handler's Response as it is, or the envelope, with
\* the error entry when an error was bound.
assemble(l, c) ==
  [ret |-> IF c.uncaught.kind # "none" THEN Propagated
           ELSE IF l.is_response THEN ResponseObject(l.result)
           ELSE Envelope(l.protocol, l.tid, l.handler_name, l.result,
                         IF c.error.kind # "none" THEN json_rpc_format(c.error)
                         ELSE NoError),
   invoked |-> l.invoked]

handled(l) == assemble(l, except_clauses(l.exc))

\* SimpleJsonRpcServer.process_request
process_request(u, items) == handled(try_block(u, items))

(***************************************************************************)
(* The transport: flask's request as prepare_request reads it, and what    *)
(* prepare_request gives back to flask.                                    *)
(*   data: "empty" (no body), "malformed" (json.loads raises) or "json";   *)
(*   batch: the decoded body is a list, of the given items; otherwise the  *)
(*   decoded body is items[1].                                             *)
(***************************************************************************)
Transport(http_method, json_ct, data, batch, items) ==
  [http_method |-> http_method, json_ct |-> json_ct, data |-> data,
   batch |-> batch, items |-> items]
NoRequest == Transport("none", FALSE, "empty", FALSE, <<>>)

\* kind: "none" before any request; "text" the discovery listing; "abort"
\* abort(404); "raised" an exception leaves prepare_request; "json" a
\* Response of json.dumps(result); "Response" a handler's own Response.
Reply(kind, batch, body, listing) ==
  [kind |-> kind, batch |-> batch, body |-> body, listing |-> listing]
NoReply == Reply("none", FALSE, <<>>, <<>>)

\* The listing with the show_api test of line 154 left out
return_jrpc_methods_list_always(u, show) ==
  Reply("text", FALSE, <<>>, [i \in 1..Len(u) |-> [n |-> u[i].name, v |-> u[i].f]])

\* SimpleJsonRpcServer.__return_jrpc_methods_list: one block per entry of
\* self.urls, in the dict's order, or the empty text.
return_jrpc_methods_list(u, show) ==
  IF ~show THEN Reply("text", FALSE, <<>>, <<>>)
  ELSE Reply("text", FALSE, <<>>, [i \in 1..Len(u) |-> [n |-> u[i].name, v |-> u[i].f]])

\* The calls of one item, tagged with the item's position in the payload.
Tagged(i, invoked) ==
  [k \in 1..Len(invoked) |-> [item |-> i, handler |-> invoked[k].handler,
                              outcome |-> invoked[k].outcome, exc |-> invoked[k].exc]]

\* result.append(self.process_request(item)), for the item at position i
append(acc, i, r) ==
  IF acc.raised THEN acc
  ELSE IF r.ret.kind = "raised"
  THEN [acc EXCEPT !.invoked = @ \o Tagged(i, r.invoked), !.raised = TRUE]
  ELSE [result |-> Append(acc.result, r.ret),
        invoked |-> acc.invoked \o Tagged(i, r.invoked),
        raised |-> FALSE]

\* for item in items: result.append(self.process_request(item))
batch_loop(u, items) ==
  LET loop[i \in 0..Len(items)] ==
        IF i = 0 THEN [result |-> <<>>, invoked |-> <<>>, raised |-> FALSE]
        ELSE append(loop[i - 1], i, process_request(u, items[i]))
  IN loop[Len(items)]

\* json.dumps(result) raises TypeError on a flask Response inside result.
serializable(result) == \A i \in 1..Len(result) : result[i].kind = "envelope"

\* lines 74-79 for a list: Response(json.dumps(result)), if json.dumps does not raise
batch_reply(b) ==
  IF b.raised \/ ~serializable(b.result)
  THEN [reply |-> Reply("raised", TRUE, <<>>, <<>>), invoked |-> b.invoked]
  ELSE [reply |-> Reply("json", TRUE, b.result, <<>>), invoked |-> b.invoked]

\* lines 74-79 for a single item: the handler's Response, or the envelope serialized
single_reply(r) ==
  [reply |-> IF r.ret.kind = "raised" THEN Reply("raised", FALSE, <<>>, <<>>)
             ELSE IF r.ret.kind = "Response" THEN Reply("Response", FALSE, <<r.ret>>, <<>>)
             ELSE Reply("json", FALSE, <<r.ret>>, <<>>),
   invoked |-> Tagged(1, r.invoked)]

\* SimpleJsonRpcServer.prepare_request: the reply, and the handler calls made.
prepare_request(u, show, req) ==
  IF req.http_method = "GET"
  THEN [reply |-> return_jrpc_methods_list(u, show), invoked |-> <<>>]
  ELSE IF ~req.json_ct \/ req.data = "empty"
  THEN [reply |-> Reply("abort", FALSE, <<>>, <<>>), invoked |-> <<>>]
  ELSE IF req.data = "malformed"
  THEN [reply |-> Reply("raised", FALSE, <<>>, <<>>), invoked |-> <<>>]
  ELSE IF req.batch THEN batch_reply(batch_loop(u, req.items))
  ELSE single_reply(process_request(u, req.items[1]))

(***************************************************************************)
(* The inputs the model draws from.                                        *)
(***************************************************************************)
Names == {"ping", "a"}
Versions == {JNull, JStr("2.0")}
Ids == {JNull, JStr("1")}
Methods == {JNull} \cup {JStr(n) : n \in Names}
\* absent, array, object and scalar params, empty and not
Params ==
  {JNull, JList(<<>>), JList(<<1>>), JDict({}), JDict({<<"x", 1>>}), JDict({<<"kwargs", 1>>}),
   JNum(0), JNum(5), JStr(""), JStr("s"), JBool(FALSE), JBool(TRUE)}
CoreParams == {JNull, JList(<<1>>), JDict({<<"x", 1>>}), JDict({<<"kwargs", 1>>}), JNum(5)}

\* Single items: every combination of present and absent fields, every
\* shape of params, and fields that are present but empty.
Items ==
  {Item(v, i, m, p) : v \in Versions, i \in Ids, m \in Methods, p \in CoreParams}
    \cup {Item(JStr("2.0"), JStr("1"), JStr(n), p) : n \in Names, p \in Params}
    \cup {Item(JStr("2.0"), JNum(0), JStr("a"), JList(<<1>>)),
          Item(JStr(""), JStr("1"), JStr("a"), JList(<<1>>)),
          Item(JStr("2.0"), JStr("1"), JStr(""), JList(<<1>>)),
          Item(JStr("2.0"), JStr("1"), JNum(5), JList(<<1>>)),
          Item(JStr("2.0"), JStr("1"), JList(<<1>>), JList(<<1>>)),
          NonObject}

\* The items batches are built from.
BatchItems ==
  {Item(JStr("2.0"), JStr("1"), JStr("a"), JList(<<1>>)),
   Item(JStr("2.0"), JStr("2"), JStr("ping"), JDict({<<"kwargs", 1>>})),
   Item(JStr("2.0"), JNull, JStr("a"), JList(<<1>>)),
   Item(JStr("2.0"), JStr("4"), JStr("a"), JNum(5))}

SeqsUpTo(S, n) == UNION {[1..k -> S] : k \in 0..n}

Requests ==
  {Transport("GET", FALSE, "empty", FALSE, <<>>),
   Transport("POST", FALSE, "json", FALSE, <<NonObject>>),
   Transport("POST", TRUE, "empty", FALSE, <<>>),
   Transport("POST", TRUE, "malformed", FALSE, <<>>)}
    \cup {Transport("POST", TRUE, "json", FALSE, <<it>>) : it \in Items}
    \cup {Transport("POST", TRUE, "json", TRUE, b) : b \in SeqsUpTo(BatchItems, MaxBatch)}

(***************************************************************************)
(* The state machine of the server.                                        *)
(***************************************************************************)
InitServer ==
  /\ urls = Builtin
  /\ show_api \in BOOLEAN
  /\ request = NoRequest
  /\ response = NoReply
  /\ calls = <<>>

\* @server.register(name) applied to a handler. request, response and calls
\* describe the prepare_request call in progress: outside one they are clear.
Register(name, f) ==
  /\ urls' = register(urls, name, f)
  /\ request' = NoRequest
  /\ response' = NoReply
  /\ calls' = <<>>
  /\ UNCHANGED <<show_api, clientVars, concVars>>

\* prepare_request with a lookup that enters a missing name into self.urls
PrepareRequestEntering(req, out) ==
  /\ request' = req
  /\ response' = out.reply
  /\ calls' = out.invoked
  /\ urls' = IF req.data = "json" /\ ~req.batch /\ req.items[1].isobj
                 /\ req.items[1].method.t = "str" /\ ~Has(urls, req.items[1].method.s)
              THEN Put(urls, req.items[1].method.s, "ping")
              ELSE urls
  /\ UNCHANGED <<show_api, clientVars, concVars>>

\* flask calls prepare_request for a request to service_url; out is what
\* prepare_request computes for it.
PrepareRequest(req, out) ==
  /\ request' = req
  /\ response' = out.reply
  /\ calls' = out.invoked
  /\ UNCHANGED <<urls, show_api, clientVars, concVars>>

(***************************************************************************)
(* The dynamic client. A client object is its __dict__: version,           *)
(* service_url, service_name, headers. service_url is a string or, when a  *)
(* dict was passed for it, that dict (d holds it).                         *)
(***************************************************************************)
UStr(x) == [t |-> "str", s |-> x, d |-> <<>>]
UDict(x) == [t |-> "dict", s |-> "", d |-> <<x>>]
JBytes(x) == [JNull EXCEPT !.t = "bytes", !.s = x]

DefaultVersion == JStr("2.0")
DefaultHeaders == {<<"Content-Type", "application/json">>}

\* SimpleJsonRpcClient.__init__; headers None or empty gives the default.
ClientInit(service_url, service_name, version, headers) ==
  [version |-> version, service_url |-> service_url, service_name |-> service_name,
   headers |-> IF headers = {} THEN DefaultHeaders ELSE headers]

\* '{}.{}'.format(self.service_name, name)
format(service_name, name) == service_name.s \o "." \o name

\* dict(self.__dict__, service_name=name)
with_service_name(self, name) == [self EXCEPT !.service_name = JStr(name)]

\* SimpleJsonRpcClient.__getattr__: self.__class__(params) passes the dict as
\* the first positional parameter of __init__, service_url.
getattr(self, name) ==
  ClientInit(UDict(with_service_name(self, IF self.service_name.t # "null"
                                           THEN format(self.service_name, name)
                                           ELSE name)),
             JNull, DefaultVersion, {})

\* What the last send_request call did. built: the payload was made (no
\* exception before json.dumps); delivered: urlopen sent it to a server;
\* raised: the exception that left send_request.
NotSent ==
  [called |-> FALSE, chain |-> <<>>, args |-> <<>>, kwargs |-> {}, built |-> FALSE,
   data |-> [version |-> JNull, method |-> JNull, params |-> JNull, id |-> 0],
   url |-> UStr(""), headers |-> {}, delivered |-> FALSE, raised |-> ""]

\* params = kwargs if len(kwargs) else args; iterating a dict gives its keys
chosen_params(args, kwargs) ==
  IF kwargs # {} THEN [i \in 1..Cardinality(kwargs) |-> JStr("key")] ELSE args

\* list(map(lambda s: s.decode("utf-8"), params)): only bytes have decode
decodable(params) == \A i \in 1..Len(params) : params[i].t = "bytes"
decoded(params) == [i \in 1..Len(params) |-> JStr(params[i].s)]

\* The payload of lines 188-193; params is the list that line 187 built
payload(self, params, id) ==
  [version |-> self.version, method |-> self.service_name, params |-> JList(params), id |-> id]

\* lines 194-197, once the payload is built: urlopen raises URLError for a
\* service_url that is no URL string or when the network fails (up is
\* FALSE); otherwise the request is delivered and read() gives bytes, on
\* which req.read() raises AttributeError.
transmit(st, self, up) ==
  IF self.service_url.t # "str" \/ ~up
  THEN [st EXCEPT !.url = self.service_url, !.headers = self.headers, !.raised = "URLError"]
  ELSE [st EXCEPT !.url = self.service_url, !.headers = self.headers,
                  !.delivered = TRUE, !.raised = "AttributeError"]

\* SimpleJsonRpcClient.send_request
send_request(self, names, args, kwargs, id, up) ==
  IF ~decodable(chosen_params(args, kwargs))
  THEN [NotSent EXCEPT !.called = TRUE, !.chain = names, !.args = args, !.kwargs = kwargs,
                       !.raised = "AttributeError"]
  ELSE transmit([NotSent EXCEPT !.called = TRUE, !.chain = names, !.args = args,
                                !.kwargs = kwargs, !.built = TRUE,
                                !.data = payload(self, decoded(chosen_params(args, kwargs)), id)],
                self, up)

AttrNames == {"a", "b"}
Origins ==
  {ClientInit(UStr("http://host/json-rpc/"), sn, v, h) :
     sn \in {JNull, JStr("svc")},
     v \in {DefaultVersion, JStr("1.1")},
     h \in {{}, {<<"X-Token", "t">>}}}
ArgLists == {<<>>, <<JBytes("x")>>, <<JNum(1), JNum(2)>>, <<JBytes("x"), JStr("y")>>}
KwargSets == {{}, {<<"x", 1>>}}

\* A client as the application constructs it.
Constructed(o) ==
  /\ origin = o
  /\ client = o
  /\ chain = <<>>
  /\ sent = NotSent
  /\ next_id = 0

\* an attribute access on the current proxy: client = client.<name>
GetAttr(name) ==
  /\ Len(chain) < MaxChain
  /\ client' = getattr(client, name)
  /\ chain' = Append(chain, name)
  /\ UNCHANGED <<origin, sent, next_id, serverVars, concVars>>

\* client.send_request(*args, **kwargs); uuid4 gives an id not used before
SendRequest(args, kwargs, up) ==
  /\ next_id < MaxSend
  /\ sent' = send_request(client, chain, args, kwargs, next_id + 1, up)
  /\ next_id' = next_id + 1
  /\ UNCHANGED <<origin, client, chain, serverVars, concVars>>

(***************************************************************************)
(* Concurrent dispatch. The web server runs process_request in several     *)
(* threads at once; the threads share self.urls, and each call has a frame *)
(* of its own for its locals. A thread takes one step of process_request   *)
(* at a time, in any interleaving with the steps of the others.            *)
(***************************************************************************)
Threads == 1..NumThreads

\* The frame that holds the locals of the call running in thread t: a call's
\* locals are its own.
frame_of_first_thread(t) == 1
frame_of(t) == t

\* The locals of a call as line 82 sets them, with args, kwargs and handler
\* not yet bound.
Frame0 ==
  [l |-> Locals0, args |-> <<>>, kwargs |-> {}, handler |-> "",
   error |-> NoRaise, uncaught |-> NoRaise]

\* No call is running.
NoThreads ==
  /\ pc = [t \in Threads |-> "idle"]
  /\ frames = [t \in Threads |-> Frame0]
  /\ work = [t \in Threads |-> NonObject]
  /\ returned = [t \in Threads |-> Propagated]

\* Registries as a finished registration phase leaves them.
Registries ==
  {Builtin} \cup {register(Builtin, "a", f) : f \in {"echo", "boom", "rpcerr", "raw"}}

\* Thread t moves to position to, its frame becoming fr.
Goto(t, to, fr) ==
  /\ pc' = [pc EXCEPT ![t] = to]
  /\ frames' = [frames EXCEPT ![frame_of(t)] = fr]
  /\ UNCHANGED <<work, returned, serverVars, clientVars>>

\* Thread t leaves the try block with exception exc.
RaiseIn(t, fr, exc) == Goto(t, "except", [fr EXCEPT !.l.exc = exc])

\* line 85, with p the outcome of __expand_params(items.get('params'))
Expand(t, fr, p) ==
  /\ pc[t] = "expand"
  /\ IF ~work[t].isobj THEN RaiseIn(t, fr, Raise("Exception", 0, "AttributeError"))
     ELSE IF p.exc.kind # "none" THEN RaiseIn(t, fr, p.exc)
     ELSE Goto(t, "read", [fr EXCEPT !.args = p.args, !.kwargs = p.kwargs])

\* lines 86-88
ReadFields(t, fr) ==
  /\ pc[t] = "read"
  /\ Goto(t, "validate", [fr EXCEPT !.l.handler_name = work[t].method,
                                    !.l.protocol = work[t].version,
                                    !.l.tid = work[t].id])

\* lines 90-93
Validate(t, fr) ==
  /\ pc[t] = "validate"
  /\ IF ~all_present(fr.args, fr.kwargs, fr.l.handler_name, fr.l.protocol, fr.l.tid)
     THEN RaiseIn(t, fr, SimpleJsonRpcError("JSON-RPC: Invalid request parameters",
                                            InvalidRequest))
     ELSE Goto(t, "lookup", fr)

\* lines 95-100
LookUp(t, fr) ==
  /\ pc[t] = "lookup"
  /\ IF fr.l.handler_name.t \in {"list", "dict"}
     THEN RaiseIn(t, fr, Raise("Exception", 0, "TypeError"))
     ELSE IF ~in_urls(urls, fr.l.handler_name)
     THEN RaiseIn(t, fr, SimpleJsonRpcError("JSON-RPC: Method not found", MethodNotFound))
     ELSE Goto(t, "call", [fr EXCEPT !.handler = Get(urls, fr.l.handler_name.s)])

\* line 107
Call(t, fr) ==
  /\ pc[t] = "call"
  /\ Goto(t, "except",
          [fr EXCEPT !.l = invoked_handler(fr.l, fr.handler,
                                           call(fr.handler, fr.args, fr.kwargs))])

\* lines 114-118, with c what the except clauses do with the exception, if any
Except(t, fr, c) ==
  /\ pc[t] = "except"
  /\ Goto(t, "assemble", [fr EXCEPT !.error = c.error, !.uncaught = c.uncaught])

\* lines 121-135: the call returns
Assemble(t, fr) ==
  /\ pc[t] = "assemble"
  /\ pc' = [pc EXCEPT ![t] = "done"]
  /\ returned' = [returned EXCEPT ![t] = assemble(fr.l, [error |-> fr.error,
                                                         uncaught |-> fr.uncaught]).ret]
  /\ UNCHANGED <<frames, work, serverVars, clientVars>>

\* The server as constructed, with show_api as the application chose it.
Init ==
  /\ InitServer
  /\ Constructed(ClientInit(UStr("http://host/json-rpc/"), JNull, DefaultVersion, {}))
  /\ NoThreads

\* A client as constructed, beside a server that serves nothing.
InitClient ==
  /\ InitServer
  /\ show_api = FALSE
  /\ \E o \in Origins : Constructed(o)
  /\ NoThreads

\* Registration is complete, and every thread is about to process an item.
InitConcurrent ==
  /\ urls \in Registries
  /\ show_api = FALSE
  /\ request = NoRequest
  /\ response = NoReply
  /\ calls = <<>>
  /\ Constructed(ClientInit(UStr("http://host/json-rpc/"), JNull, DefaultVersion, {}))
  /\ pc = [t \in Threads |-> "expand"]
  /\ frames = [t \in Threads |-> Frame0]
  /\ work \in [Threads -> BatchItems \cup {NonObject}]
  /\ returned = [t \in Threads |-> Propagated]

Next ==
  \/ \E name \in Names, f \in Handlers : Register(name, f)
  \/ \E req \in Requests : PrepareRequest(req, prepare_request(urls, show_api, req))

NextClient ==
  \/ \E name \in AttrNames : GetAttr(name)
  \/ \E args \in ArgLists, kwargs \in KwargSets, up \in BOOLEAN : SendRequest(args, kwargs, up)

NextConcurrent ==
  \/ \E t \in Threads : Expand(t, frames[frame_of(t)], expand_params(work[t].params))
  \/ \E t \in Threads : ReadFields(t, frames[frame_of(t)])
  \/ \E t \in Threads : Validate(t, frames[frame_of(t)])
  \/ \E t \in Threads : LookUp(t, frames[frame_of(t)])
  \/ \E t \in Threads : Call(t, frames[frame_of(t)])
  \/ \E t \in Threads : Except(t, frames[frame_of(t)], except_clauses(frames[frame_of(t)].l.exc))
  \/ \E t \in Threads : Assemble(t, frames[frame_of(t)])

\* The server: registrations and requests, in any order.
Spec == Init /\ [][Next]_vars

\* The client: attribute accesses and calls, in any order.
ClientSpec == InitClient /\ [][NextClient]_vars

\* The dispatcher under concurrent requests: the steps of the threads' calls
\* of process_request, in any interleaving.
ConcurrentSpec == InitConcurrent /\ [][NextConcurrent]_vars

(***************************************************************************)
(* Properties. They read the request being served, the reply to it and the *)
(* handler calls made for it.                                              *)
(***************************************************************************)
FixedCodes == {InvalidRequest, MethodNotFound, InvalidParams, InternalError}

Dispatched == request.http_method = "POST" /\ request.json_ct /\ request.data = "json"
IsSingle == Dispatched /\ ~request.batch
IsBatch == Dispatched /\ request.batch

\* method, version and id of an item are present and not empty
Addressed(it) == it.isobj /\ Truthy(it.method) /\ Truthy(it.version) /\ Truthy(it.id)
Registered(it) == it.method.t = "str" /\ Has(urls, it.method.s)
\* params is absent, an array or an object
ShapedParams(it) == it.params.t \in {"null", "list", "dict"}
EmptyParams(it) == ShapedParams(it) /\ ~Truthy(it.params)
\* the positional and named arguments that absent, array and object params stand for
ArgsOf(params) == IF params.t = "list" THEN params.items ELSE <<>>
KwargsOf(params) == IF params.t = "dict" THEN params.map ELSE {}
\* what the handler registered for the item's method does with the item's arguments
OutcomeFor(it) == call(Get(urls, it.method.s), ArgsOf(it.params), KwargsOf(it.params))

HasError(r, code) == r.kind = "envelope" /\ r.error.present /\ r.error.code = code
NoErrorIn(r) == r.kind = "envelope" /\ ~r.error.present

\* C1: a well-formed request (non-empty version, id and method, arguments
\* the handler accepts) for a registered handler that returns a value gets
\* an envelope whose result is that value and that has no error entry.
C1_ResultOfHandler ==
  IsSingle =>
    \A it \in {request.items[1]} :
      (Addressed(it) /\ Registered(it) /\ ShapedParams(it) /\ OutcomeFor(it).kind = "return")
        => /\ response.kind = "json"
           /\ NoErrorIn(response.body[1])
           /\ response.body[1].result = OutcomeFor(it).value

\* C2: on a freshly constructed server, ping dispatched with params absent
\* or empty answers with result "pong" and no error.
C2_PingPong ==
  (IsSingle /\ urls = Builtin) =>
    \A it \in {request.items[1]} :
      (Addressed(it) /\ it.method = JStr("ping") /\ EmptyParams(it))
        => /\ response.kind = "json"
           /\ NoErrorIn(response.body[1])
           /\ response.body[1].result = JStr("pong")

\* C3: a request whose method, version and id are non-empty and whose params
\* are absent or empty is not rejected with -32600.
C3_ParamsNotRequired ==
  IsSingle =>
    \A it \in {request.items[1]} :
      (Addressed(it) /\ EmptyParams(it))
        => ~(response.kind = "json" /\ HasError(response.body[1], InvalidRequest))

\* C4: a request that names an unregistered method, its other fields well
\* formed, gets error code -32601 and a null result, and no handler is called.
C4_MethodNotFound ==
  IsSingle =>
    \A it \in {request.items[1]} :
      (Addressed(it) /\ it.method.t = "str" /\ ~Registered(it) /\ ShapedParams(it))
        => /\ response.kind = "json"
           /\ HasError(response.body[1], MethodNotFound)
           /\ response.body[1].result = JNull
           /\ calls = <<>>

\* C5: a request whose params is a number, a string or a boolean gets error
\* code -32602.
C5_ScalarParams ==
  IsSingle =>
    \A it \in {request.items[1]} :
      (it.isobj /\ it.params.t \in {"num", "str", "bool"})
        => response.kind = "json" /\ HasError(response.body[1], InvalidParams)

\* C6: a batch of N items is answered by an array of exactly N responses,
\* the i-th being the response to the i-th item.
C6_BatchInOrder ==
  IsBatch =>
    /\ response.kind = "json"
    /\ Len(response.body) = Len(request.items)
    /\ \A i \in 1..Len(request.items) :
         response.body[i] = process_request(urls, request.items[i]).ret

\* The positions of a sequence other than i, in order.
Without(q, i) == [k \in 1..(Len(q) - 1) |-> IF k < i THEN q[k] ELSE q[k + 1]]
\* The calls in which a handler raised an exception that is no SimpleJsonRpcError.
Unexpected == {k \in 1..Len(calls) : calls[k].outcome = "raise" /\ calls[k].exc.kind = "Exception"}
ReplyWithout(i) ==
  prepare_request(urls, show_api, [request EXCEPT !.items = Without(request.items, i)]).reply

\* C7: a handler that raises an unexpected exception gives exactly one
\* response item, with code -32603; no exception leaves process_request (a
\* reply is lost only to a body that is no JSON or to a handler's Response
\* inside a batch); and the batch's other responses are those of the batch
\* without that item.
C7_InternalErrorIsolated ==
  /\ (Dispatched /\ response.kind = "raised")
       => request.batch /\ \E k \in 1..Len(calls) : calls[k].outcome = "Response"
  /\ \A k \in Unexpected :
       /\ response.kind = "json" =>
            /\ Len(response.body) = Len(request.items)
            /\ HasError(response.body[calls[k].item], InternalError)
       /\ request.batch =>
            /\ ReplyWithout(calls[k].item).kind = response.kind
            /\ response.kind = "json" =>
                 ReplyWithout(calls[k].item).body = Without(response.body, calls[k].item)

\* C7's case: a batch of two in which the first item's handler raised and
\* the second item succeeded.
C7_Witness ==
  /\ IsBatch /\ Len(request.items) = 2 /\ response.kind = "json"
  /\ \E k \in Unexpected : calls[k].item = 1
  /\ HasError(response.body[1], InternalError)
  /\ NoErrorIn(response.body[2]) /\ response.body[2].result = JStr("pong")

\* The call, if any, in which the handler of item i raised a SimpleJsonRpcError.
OwnError(i) ==
  {k \in 1..Len(calls) : calls[k].item = i /\ calls[k].exc.kind = "SimpleJsonRpcError"}

\* C8 as stated: every error object in a response has a code in the fixed
\* set, whether the handler returned, raised an arbitrary exception or raised
\* a SimpleJsonRpcError with a code of its own.
C8_OnlyFixedCodes ==
  \A i \in 1..Len(response.body) :
    (response.body[i].kind = "envelope" /\ response.body[i].error.present)
      => response.body[i].error.code \in FixedCodes

\* C8 amended: an error object has a code in the fixed set unless the
\* handler raised a SimpleJsonRpcError, and then it has that error's code.
C8_FixedCodesOrHandlersOwn ==
  \A i \in 1..Len(response.body) :
    (response.body[i].kind = "envelope" /\ response.body[i].error.present)
      => IF OwnError(i) = {}
         THEN response.body[i].error.code \in FixedCodes
         ELSE \A k \in OwnError(i) : response.body[i].error.code = calls[k].exc.code

\* C8's case: a handler raised a SimpleJsonRpcError and the response carries
\* an error object.
C8_Witness ==
  /\ IsSingle /\ response.kind = "json"
  /\ OwnError(1) # {}
  /\ response.body[1].error.present

\* C9: a handler is called only for an item whose method, version and id are
\* non-empty and whose method is registered, it is the handler registered
\* for that method, no item has two calls, and discovery calls none.
C9_CallsOnlyWhenAddressed ==
  /\ \A k \in 1..Len(calls) :
       /\ Dispatched
       /\ calls[k].item \in 1..Len(request.items)
       /\ Addressed(request.items[calls[k].item])
       /\ Registered(request.items[calls[k].item])
       /\ calls[k].handler = Get(urls, request.items[calls[k].item].method.s)
  /\ \A k1, k2 \in 1..Len(calls) : calls[k1].item = calls[k2].item => k1 = k2
  /\ request.http_method = "GET" => calls = <<>>

\* C9's case: a batch in which one item's handler was called and the other's was not.
C9_Witness ==
  /\ IsBatch /\ Len(request.items) = 2
  /\ Len(calls) = 1

\* n1.n2.....nk
RECURSIVE Dotted(_)
Dotted(names) ==
  IF Len(names) = 1 THEN names[1]
  ELSE Dotted(SubSeq(names, 1, Len(names) - 1)) \o "." \o names[Len(names)]

\* C10: after the attribute accesses n1, ..., nk on a client whose method
\* name is unset, the proxy has method name "n1.n2.....nk" and the endpoint
\* URL, version and headers of the original client, and a request it builds
\* carries that method name.
C10_DottedMethodName ==
  (origin.service_name = JNull /\ chain # <<>>) =>
    /\ client.service_name = JStr(Dotted(chain))
    /\ client.service_url = origin.service_url
    /\ client.version = origin.version
    /\ client.headers = origin.headers
    /\ (sent.built /\ sent.chain = chain) => sent.data.method = JStr(Dotted(chain))

\* C11: a request that send_request builds has params equal to the named
\* arguments, as a mapping, when any were given, and to the positional
\* arguments, in order, otherwise; and each call builds one.
C11_ParamsFromArguments ==
  sent.called =>
    /\ sent.built
    /\ sent.data.params = (IF sent.kwargs # {} THEN JDict(sent.kwargs) ELSE JList(sent.args))

\* The handler calls whose handler returned a flask Response.
PassedThrough == {k \in 1..Len(calls) : calls[k].outcome = "Response"}

\* C12: when the handler of a single request returns a flask Response,
\* process_request returns that object in place of an envelope, and
\* prepare_request returns it as it is, with the body the handler gave it.
C12_ResponsePassThrough ==
  (IsSingle /\ PassedThrough # {}) =>
    /\ process_request(urls, request.items[1]).ret = ResponseObject(ReturnedResponse.value)
    /\ response.kind = "Response"
    /\ response.body = <<ResponseObject(ReturnedResponse.value)>>

\* C12's case: a single request whose handler returned a Response, answered.
C12_Witness ==
  /\ IsSingle /\ PassedThrough # {}
  /\ response.kind = "Response"
  /\ response.body[1].result = JStr("raw body")

\* C13: a GET answers with an empty body when show_api is off, and otherwise
\* with exactly one entry for each name in the registry, ping among them,
\* whatever registrations came before.
C13_DiscoveryListsRegistry ==
  request.http_method = "GET" =>
    /\ response.kind = "text"
    /\ IF ~show_api THEN response.listing = <<>>
       ELSE /\ Len(response.listing) = Len(urls)
            /\ \A i \in 1..Len(urls) :
                 Cardinality({j \in 1..Len(response.listing) :
                                response.listing[j].n = urls[i].name}) = 1
            /\ \A j \in 1..Len(response.listing) :
                 /\ Has(urls, response.listing[j].n)
                 /\ response.listing[j].v = Get(urls, response.listing[j].n)
            /\ \E j \in 1..Len(response.listing) : response.listing[j].n = "ping"

\* C13's case: a listing served after a registration, with two entries.
C13_Witness ==
  /\ request.http_method = "GET" /\ show_api
  /\ Has(urls, "a")
  /\ Len(response.listing) = 2

\* C13's other case: a GET with show_api off, after a registration.
C13_WitnessHidden ==
  /\ request.http_method = "GET" /\ ~show_api
  /\ Has(urls, "a")
  /\ response.kind = "text" /\ response.listing = <<>>

\* C14: a registration makes the name's lookup give the handler just
\* registered, also when the name was registered before, and leaves every
\* other name's lookup as it was.
C14_LastRegistrationWins ==
  [][\A name \in Names, f \in Handlers :
       Register(name, f) =>
         /\ Has(urls', name) /\ Get(urls', name) = f
         /\ \A other \in Names \ {name} :
              /\ Has(urls', other) = Has(urls, other)
              /\ Has(urls, other) => Get(urls', other) = Get(urls, other)]_vars

\* C14's case: ping, registered at construction, registered again with
\* another handler, beside another name.
C14_Witness ==
  /\ Has(urls, "a")
  /\ Get(urls, "ping") = "echo"
  /\ Len(urls) = 2

\* C15: an envelope with an error entry has a null result, and the envelope
\* of an item whose handler returned has no error entry.
C15_ResultOrError ==
  /\ \A i \in 1..Len(response.body) :
       (response.body[i].kind = "envelope" /\ response.body[i].error.present)
         => response.body[i].result = JNull
  /\ response.kind = "json" =>
       \A k \in 1..Len(calls) :
         calls[k].outcome = "return" => NoErrorIn(response.body[calls[k].item])

\* C15's case: a batch with one item whose handler returned a value and one
\* item that failed.
C15_Witness ==
  /\ IsBatch /\ Len(request.items) = 2 /\ response.kind = "json"
  /\ NoErrorIn(response.body[1]) /\ response.body[1].result # JNull
  /\ response.body[2].error.present /\ response.body[2].result = JNull

\* C16: when normalizing the params of a request object fails (-32602), the
\* error response has the request's version as protocol, its id as tid and
\* its method as method.
C16_ErrorKeepsRequestFields ==
  IsSingle =>
    \A it \in {request.items[1]} :
      (it.isobj /\ response.kind = "json" /\ HasError(response.body[1], InvalidParams))
        => /\ response.body[1].protocol = it.version
           /\ response.body[1].tid = it.id
           /\ response.body[1].method = it.method

\* C17: errors have the precedence -32602, -32600, -32601: scalar params with
\* a missing or unregistered method give -32602, a missing version or id
\* with an unregistered method gives -32600, and in both cases no handler is
\* called.
C17_ErrorPrecedence ==
  IsSingle =>
    \A it \in {request.items[1]} :
      it.isobj =>
        /\ (it.params.t \in {"num", "str", "bool"} /\ (~Truthy(it.method) \/ ~Registered(it)))
             => /\ response.kind = "json"
                /\ HasError(response.body[1], InvalidParams)
                /\ calls = <<>>
        /\ (ShapedParams(it) /\ (~Truthy(it.version) \/ ~Truthy(it.id)) /\ ~Registered(it))
             => /\ response.kind = "json"
                /\ HasError(response.body[1], InvalidRequest)
                /\ calls = <<>>

\* C18: a step that serves a request, of whatever kind, leaves the registry
\* as it was; the registry changes only by a registration.
C18_RequestsKeepRegistry ==
  [][/\ response' # NoReply => urls' = urls
     /\ urls' # urls => \E name \in Names, f \in Handlers :
                          urls' = register(urls, name, f) /\ response' = NoReply]_vars

\* C18's case: a request served, its handler called, after registrations
\* had filled the registry.
C18_Witness ==
  /\ IsSingle /\ Len(calls) = 1
  /\ Len(urls) = 2
  /\ response.kind = "json"

\* C19: with registration complete, under every interleaving of the steps of
\* concurrent process_request calls, each call returns what process_request
\* returns for its item and the registry alone.
C19_ReentrantDispatch ==
  \A t \in Threads : pc[t] = "done" => returned[t] = process_request(urls, work[t]).ret

\* C19's case: two calls ran to their end, one answering its item with a
\* result and the other answering a different item with an error.
C19_Witness ==
  /\ pc[1] = "done" /\ pc[2] = "done"
  /\ work[1] # work[2]
  /\ NoErrorIn(returned[1]) /\ returned[1].result # JNull /\ returned[1].tid = work[1].id
  /\ returned[2].kind = "envelope" /\ returned[2].error.present /\ returned[2].tid # returned[1].tid

\* C20: a batch with an item whose handler returns a flask Response is still
\* answered with a serialized array, in which the other items have the
\* responses process_request gives them.
C20_PassThroughInBatch ==
  (IsBatch /\ PassedThrough # {}) =>
    /\ response.kind = "json"
    /\ Len(response.body) = Len(request.items)
    /\ \A i \in 1..Len(request.items) :
         (\A k \in PassedThrough : calls[k].item # i)
           => response.body[i] = process_request(urls, request.items[i]).ret

====
